---------------------------- MODULE Spec2Model ----------------------------
(***************************************************************************)
(* Quadrotor simulation of the oa-project notebooks: rotor mixing, the PD  *)
(* altitude controller, the planar and the full rigid-body dynamics and    *)
(* the fixed-step simulation loop that ties them together.                 *)
(*                                                                         *)
(* Numbers.  The notebooks compute in IEEE doubles; here every quantity is *)
(* a fixed-point integer and every product or quotient is rounded to the   *)
(* nearest unit, the way a float operation rounds to the nearest float.    *)
(* Units (one model unit is):                                              *)
(*   time      one tick, dt = 0.01 s        mass       1 g                 *)
(*   position  2.5e-9 m                     velocity   2.5e-7 m/s          *)
(*   accel.    5e-5 m/s^2                   force      1e-4 N              *)
(*   rotor rate 0.1 rad/s                   k_thrust   1e-8 (1e-4 N)/(0.1 rad/s)^2 *)
(*   length    1e-4 m                       k (ratio)  1e-2                *)
(*   quaternion 1e-8                        ang. vel.  1e-3 rad/s          *)
(*   ang. acc. 0.1 rad/s^2                  inertia    1e-5 kg m^2         *)
(* so that over one tick a velocity of v units moves the position by v     *)
(* units and an acceleration of a units changes the velocity by 2a units.  *)
(***************************************************************************)
EXTENDS Integers, Sequences, FiniteSets, TLC

\* The number of calls each component has received in the run: the one
\* thing a component could count for itself, declared ahead of them.
VARIABLE calls

\* ------------------------------------------------------------------------
\* Fixed-point arithmetic
\* ------------------------------------------------------------------------

MaxInt == 1073741823 * 2 + 1

\* The value np.sqrt returns for a negative argument ("undefined 'nans'").
NaN == -2147483647

Abs(a) == IF a < 0 THEN -a ELSE a

Sign(a) == IF a < 0 THEN -1 ELSE 1

Min(a, b) == IF a < b THEN a ELSE b

Max(a, b) == IF a > b THEN a ELSE b

\* <<carry, (r + s) mod c>> for 0 <= r, s < c, without forming r + s.
AddMod(r, s, c) == IF r >= c - s THEN <<1, r - (c - s)>> ELSE <<0, r + s>>

\* A quotient raised by q, or by the carry of a remainder.
Carry(q, e) == <<q + e[1], e[2]>>

\* <<quotient, remainder>> of (h[1] * c + h[2]) * D + t by c.
Shifted(h, t, c, D) ==
  Carry(h[1] * D + (h[2] * D) \div c + t \div c, AddMod((h[2] * D) % c, t % c, c))

\* <<floor(x*y/c), (x*y) mod c>> for 0 <= x < c and y >= 0, digit by digit
\* of y in base D, where D * c fits a machine integer.
RECURSIVE MulDigits(_, _, _, _)
MulDigits(x, y, c, D) ==
  IF y < D THEN <<(x * y) \div c, (x * y) % c>>
  ELSE Shifted(MulDigits(x, y \div D, c, D), x * (y % D), c, D)

\* <<floor(a*b/c), (a*b) mod c>> for a, b >= 0 and 0 < c <= 2^30, without
\* ever forming the product a*b when it does not fit.
MulDivQR(a, b, c) ==
  IF b = 0 \/ a = 0 THEN <<0, 0>>
  ELSE IF a <= MaxInt \div b THEN <<(a * b) \div c, (a * b) % c>>
  ELSE Carry((a \div c) * b, MulDigits(a % c, b, c, MaxInt \div c))

\* a*b/c rounded to the nearest integer (halves away from zero), c > 0.
MulDivR(a, b, c) ==
  LET qr == MulDivQR(Abs(a), Abs(b), c)
  IN Sign(a) * Sign(b) * (qr[1] + (IF qr[2] >= c - qr[2] THEN 1 ELSE 0))

\* a/c rounded to the nearest integer, c # 0.
DivR(a, c) == Sign(c) * MulDivR(a, 1, Abs(c))

\* The number of k in 1..m with (base + k * unit)^2 <= n: the largest such
\* k, the squares growing with k.  No square beyond 46340^2 is formed.
RootDigit(n, base, unit, m) ==
  Cardinality({k \in 1..m : /\ base + k * unit <= 46340
                            /\ (base + k * unit) * (base + k * unit) <= n})

\* floor(sqrt(n)) for 0 <= n < 2^31, one base-256 digit after the other.
ISqrtLow(n, high) == high + RootDigit(n, high, 1, 255)

ISqrt(n) == ISqrtLow(n, 256 * RootDigit(n, 0, 256, 181))

\* The floor s of sqrt(n) or s + 1, whichever is nearer to sqrt(n).
RoundRoot(n, s) == IF n - s * s > s THEN s + 1 ELSE s

\* sqrt(n) rounded to the nearest integer.
SqrtR(n) == RoundRoot(n, ISqrt(n))

\* np.sqrt: nan for a negative (or nan) argument.
np_sqrt(x) == IF x = NaN \/ x < 0 THEN NaN ELSE SqrtR(x)

RECURSIVE Gcd(_, _)
Gcd(a, b) == IF b = 0 THEN a ELSE Gcd(b, a % b)

\* ------------------------------------------------------------------------
\* Vectors and matrices (tuples and tuples of rows)
\* ------------------------------------------------------------------------

\* A function on 1..n as a tuple with its elements evaluated.
Tup(f) == f \o <<>>

\* F(v), with v evaluated first.
With(v, F(_)) == CHOOSE r \in {F(x) : x \in {v}} : TRUE

RECURSIVE SumSeq(_)
SumSeq(s) == IF Len(s) = 0 THEN 0 ELSE Head(s) + SumSeq(Tail(s))

\* M @ x for an integer matrix M.
MatVec(M, x) ==
  Tup([r \in 1..Len(M) |-> SumSeq(Tup([c \in 1..Len(x) |-> M[r][c] * x[c]]))])

Drop(s, i) == Tup([j \in 1..(Len(s) - 1) |-> IF j < i THEN s[j] ELSE s[j + 1]])

Minor(M, i, j) == Tup([r \in 1..(Len(M) - 1) |-> Drop(Drop(M, i)[r], j)])

\* Determinant by expansion along the first row.
RECURSIVE Det(_)
Det(M) ==
  IF Len(M) = 1 THEN M[1][1]
  ELSE SumSeq(Tup([j \in 1..Len(M) |->
                 (IF j % 2 = 1 THEN 1 ELSE -1) * M[1][j] * Det(Minor(M, 1, j))]))

Adjugate(M) ==
  Tup([i \in 1..Len(M) |-> Tup([j \in 1..Len(M) |->
     (IF (i + j) % 2 = 0 THEN 1 ELSE -1) * Det(Minor(M, j, i))])])

RECURSIVE RowGcd(_)
RowGcd(row) == IF Len(row) = 0 THEN 0 ELSE Gcd(Abs(Head(row)), RowGcd(Tail(row)))

NaNs(n) == Tup([r \in 1..n |-> NaN])

\* w / d entry by entry; nan when the determinant d is zero.
DetSolve(d, w) ==
  IF d = 0 THEN NaNs(Len(w)) ELSE Tup([r \in 1..Len(w) |-> DivR(w[r], d)])

\* inv(S) @ v = adj(S) @ v / det(S) for a matrix S of small integers.
AdjugateSolve(S, v) == DetSolve(Det(S), MatVec(Adjugate(S), v))

\* inv(M) @ x for M = diag(g) @ S, g[r] the gcd of row r.
ScaledSolve(M, x, g) ==
  IF \E r \in 1..Len(M) : g[r] = 0 THEN NaNs(Len(M))
  ELSE AdjugateSolve(
         Tup([r \in 1..Len(M) |-> Tup([c \in 1..Len(M) |-> M[r][c] \div g[r]])]),
         Tup([r \in 1..Len(M) |-> DivR(x[r], g[r])]))

\* np.linalg.inv(M) @ x.  Each row of M is its gcd g[r] times a row of small
\* integers S[r], so inv(M) = adj(S) / det(S) * diag(1/g); the quotients are
\* rounded to the nearest unit.  The callers ask np_linalg_inv_raises first:
\* the nan entries of a singular M stand for a result that is never returned.
inv_matmul(M, x) == ScaledSolve(M, x, Tup([r \in 1..Len(M) |-> RowGcd(M[r])]))

\* The rows of M divided by g[r] each.
scaled_rows(M, g) ==
  Tup([r \in 1..Len(M) |-> Tup([c \in 1..Len(M) |-> M[r][c] \div g[r]])])

singular_rows(M, g) ==
  (\E r \in 1..Len(M) : g[r] = 0) \/ Det(scaled_rows(M, g)) = 0

\* np.linalg.inv(M) raises LinAlgError("Singular matrix") for a matrix that
\* is exactly singular: a zero row, or a zero determinant.
np_linalg_inv_raises(M) ==
  singular_rows(M, Tup([r \in 1..Len(M) |-> RowGcd(M[r])]))

\* ------------------------------------------------------------------------
\* Params (the 3D notebook)
\* ------------------------------------------------------------------------

\* Denominator of the fixed-point rotor coefficients k_thrust, k_torque.
KDen == 100000000

\* Scale of the fixed-point ratio k = k_thrust / k_torque.
KScale == 100

\* 4 * pi^2 in units of 1e-7.
FourPiSquared == 394784176

\* rho * static_coefficient * rotor_diameter^4 / (4 pi^2); rho in g/m^3,
\* the coefficient in 1e-5, the diameter in mm.
rotor_model(rho, rotor_diameter, static_coefficient) ==
  MulDivR(MulDivR(rho * static_coefficient,
                  MulDivR(rotor_diameter * rotor_diameter,
                          rotor_diameter * rotor_diameter, 10),
                  100000000),
          1000000, FourPiSquared)

p ==
  [mass |-> 1352,
   inertia |-> << <<980, 0, 0>>, <<0, 1002, 0>>, <<0, 0, 1860>> >>,
   rotor_diameter |-> 254,
   static_thrust_coefficient |-> 14553,
   static_torque_coefficient |-> 1047,
   arm_length |-> 3814 \div 2,
   g |-> 196133,
   rho |-> 1225]

\* The properties k_thrust and k_torque of Params.
k_thrust == rotor_model(p.rho, p.rotor_diameter, p.static_thrust_coefficient)

k_torque == rotor_model(p.rho, p.rotor_diameter, p.static_torque_coefficient)

\* Params(mass=..., inertia=..., arm_length=..., static_torque_coefficient=...):
\* the __init__ the dataclass decorator generates stores its arguments as
\* they come; the class has no __post_init__ and no setter that tests them.
Params(mass, inertia, arm_length, static_torque_coefficient) ==
  [p EXCEPT !.mass = mass, !.inertia = inertia, !.arm_length = arm_length,
            !.static_torque_coefficient = static_torque_coefficient]

\* The property k_torque of a Params object.
Params_k_torque(params) ==
  rotor_model(params.rho, params.rotor_diameter, params.static_torque_coefficient)

\* ------------------------------------------------------------------------
\* Rotor mixing
\* ------------------------------------------------------------------------

\* rotor_thrust_model: force of each rotor, k_thrust * rate^2.
rotor_thrust_model(rotor_rates) ==
  Tup([i \in 1..Len(rotor_rates) |->
         MulDivR(rotor_rates[i] * rotor_rates[i], k_thrust, KDen)])

\* Faulty variant: the roll torque taken with the opposite sign.
FullQuadrotorDynamics_mixing_rows_roll_reversed(L, k) ==
  << <<1, 1, 1, 1>>,
     <<0, -L, 0, L>>,
     <<-L, 0, L, 0>>,
     <<k, -k, k, -k>> >>

\* Faulty variant: the yaw row without its alternating signs.
FullQuadrotorDynamics_mixing_rows_yaw_unsigned(L, k) ==
  << <<1, 1, 1, 1>>,
     <<0, L, 0, -L>>,
     <<-L, 0, L, 0>>,
     <<k, k, k, k>> >>

\* The rows of the matrix FullQuadrotorDynamics.step builds from its locals
\* L and k.
FullQuadrotorDynamics_mixing_rows(L, k) ==
  << <<1, 1, 1, 1>>,
     <<0, L, 0, -L>>,
     <<-L, 0, L, 0>>,
     <<k, -k, k, -k>> >>

\* mixing_matrix, with L = arm_length and k = k_thrust / k_torque.
FullQuadrotorDynamics_mixing_matrix ==
  FullQuadrotorDynamics_mixing_rows(p.arm_length, MulDivR(k_thrust, KScale, k_torque))

\* u = mixing_matrix @ forces, with forces from rotor_thrust_model.
FullQuadrotorDynamics_mix(rotor_rates) ==
  MatVec(FullQuadrotorDynamics_mixing_matrix, rotor_thrust_model(rotor_rates))

\* ------------------------------------------------------------------------
\* Controller
\* ------------------------------------------------------------------------

\* Faulty variant: no derivative gain.
controller_p_undamped ==
  [K_p |-> << <<0, 0, 0>>, <<0, 0, 0>>, <<0, 0, 100>> >>,
   K_d |-> << <<0, 0, 0>>, <<0, 0, 0>>, <<0, 0, 0>> >>,
   rotor_rate_min |-> 1800,
   rotor_rate_max |-> 6000]

controller_p ==
  [K_p |-> << <<0, 0, 0>>, <<0, 0, 0>>, <<0, 0, 100>> >>,
   K_d |-> << <<0, 0, 0>>, <<0, 0, 0>>, <<0, 0, 20>> >>,
   rotor_rate_min |-> 1800,
   rotor_rate_max |-> 6000]

\* Faulty variant: the roll and pitch rows exchanged.
Controller_mixing_rows_exchanged(L, k) ==
  << <<1, 1, 1, 1>>,
     <<-L, 0, L, 0>>,
     <<0, L, 0, -L>>,
     <<k, -k, k, -k>> >>

\* The rows of the matrix Controller.rotor_rates_from_u builds from its
\* locals L and k.
Controller_mixing_rows(L, k) ==
  << <<1, 1, 1, 1>>,
     <<0, L, 0, -L>>,
     <<-L, 0, L, 0>>,
     <<k, -k, k, -k>> >>

\* mixing_matrix, with L = arm_length and k = k_thrust / k_torque.
Controller_mixing_matrix ==
  Controller_mixing_rows(p.arm_length, MulDivR(k_thrust, KScale, k_torque))

\* force_array = np.linalg.inv(mixing_matrix) @ u
force_array_raw(u) == inv_matmul(Controller_mixing_matrix, u)

\* Faulty variant: negative forces left as they are.
force_clamp_missing(f) == f

\* "if force_array[f] < 0: force_array[f] = 0"
force_clamp(f) == IF f # NaN /\ f < 0 THEN 0 ELSE f

force_array(raw) == Tup([f \in 1..4 |-> force_clamp(raw[f])])

\* Faulty variant: the root of the force itself, not of force / k_thrust.
math_omegas_undivided(forces) ==
  Tup([f \in 1..4 |-> np_sqrt(forces[f])])

\* math_omegas = np.sqrt(force_array / k_thrust)
math_omegas(forces) ==
  Tup([f \in 1..4 |->
     np_sqrt(IF forces[f] = NaN THEN NaN ELSE MulDivR(forces[f], KDen, k_thrust))])

\* Faulty variant: the lower limit only.
rate_clamp_lower_only(w) ==
  IF w # NaN /\ w < controller_p.rotor_rate_min THEN controller_p.rotor_rate_min
  ELSE w

\* Faulty variant: the upper limit only, so that a rotor may stop.
rate_clamp_upper_only(w) ==
  IF w # NaN /\ w > controller_p.rotor_rate_max THEN controller_p.rotor_rate_max
  ELSE w

\* The clamp of one rate: two successive tests, the second on the value the
\* first left; a comparison with nan is false.
rate_clamp_upper(w) ==
  IF w # NaN /\ w > controller_p.rotor_rate_max THEN controller_p.rotor_rate_max
  ELSE w

rate_clamp(w) ==
  rate_clamp_upper(IF w # NaN /\ w < controller_p.rotor_rate_min
                   THEN controller_p.rotor_rate_min ELSE w)

rate_clamp_all(omegas) == Tup([i \in 1..4 |-> rate_clamp(omegas[i])])

rotor_rates_from_u(u) ==
  rate_clamp_all(math_omegas(force_array(force_array_raw(u))))

\* Controller.step: PD law on the position and velocity errors, thrust only.
\* A gain times a velocity error (K_d) is in acceleration units after /200,
\* a gain times a position error (K_p) after /20000.
\* Faulty variant: the diagonal gain of a row applied to the sum of the errors.
gain_matvec_summed(K, e, den) ==
  Tup([r \in 1..3 |-> SumSeq(Tup([c \in 1..3 |-> MulDivR(K[r][r], e[c], den)]))])

gain_matvec(K, e, den) ==
  Tup([r \in 1..3 |-> SumSeq(Tup([c \in 1..3 |-> MulDivR(K[r][c], e[c], den)]))])

vec_add(a, b) == Tup([i \in 1..Len(a) |-> a[i] + b[i]])

vec_sub(a, b) == Tup([i \in 1..Len(a) |-> a[i] - b[i]])

\* Force units per (mass unit * acceleration unit): 1 g * 5e-5 m/s^2 = 1e-4 N / 2000.
ForceDen == 2000

\* Faulty variant: the two gain matrices exchanged.
commanded_acceleration_gains_exchanged(trajectory, state) ==
  vec_add(gain_matvec(controller_p.K_p, vec_sub(trajectory.velocity, state.velocity), 200),
          gain_matvec(controller_p.K_d, vec_sub(trajectory.position, state.position), 20000))

\* commanded_acceleration = K_d @ (velocity error) + K_p @ (position error)
commanded_acceleration(trajectory, state) ==
  vec_add(gain_matvec(controller_p.K_d, vec_sub(trajectory.velocity, state.velocity), 200),
          gain_matvec(controller_p.K_p, vec_sub(trajectory.position, state.position), 20000))

\* Faulty variant: the thrust without the gravity feed-forward.
Controller_u_no_gravity(trajectory, state) ==
  <<MulDivR(p.mass, commanded_acceleration(trajectory, state)[3], ForceDen), 0, 0, 0>>

\* Faulty variant: a roll torque commanded besides the thrust.
Controller_u_roll_torque(trajectory, state) ==
  <<MulDivR(p.mass, p.g + commanded_acceleration(trajectory, state)[3], ForceDen),
    2288400, 0, 0>>

\* u = [u_1, 0, 0, 0] with u_1 = mass * (g + commanded_acceleration[2]).
Controller_u(trajectory, state) ==
  <<MulDivR(p.mass, p.g + commanded_acceleration(trajectory, state)[3], ForceDen), 0, 0, 0>>

\* Faulty variant: a term that grows with every call the controller object
\* has served, whatever the run's inputs are.
Controller_step_stateful(t, trajectory, state) ==
  rotor_rates_from_u(<<Controller_u(trajectory, state)[1] + 1000 * calls.control, 0, 0, 0>>)

Controller_step(t, trajectory, state) ==
  rotor_rates_from_u(Controller_u(trajectory, state))

\* Faulty variant: the position error is computed in place, in the array of
\* the state that was passed.
Controller_step_arguments_in_place(trajectory, state) ==
  <<trajectory, [state EXCEPT !.position = vec_sub(trajectory.position, state.position)]>>

\* The objects trajectory and state as Controller.step leaves them: it reads
\* their position and velocity into new arrays and assigns to no field.
Controller_step_arguments(trajectory, state) == <<trajectory, state>>

\* EmptyController.step: zero rotor rates.
EmptyController_step(t, trajectory, state) == <<0, 0, 0, 0>>

\* ------------------------------------------------------------------------
\* Trajectories
\* ------------------------------------------------------------------------

TicksPerSecond == 100

OneMetre == 400000000

\* TrajectoryState(t, position=...): the velocity defaults to zero.
TrajectoryState(t, position) ==
  [t |-> t, position |-> position, velocity |-> <<0, 0, 0>>]

\* Faulty variant: the jump made after t = 1.0 s only.
JumpTrajectory_eval_late(t) ==
  LET altitude == IF t <= 1 * TicksPerSecond THEN 0 ELSE OneMetre
  IN TrajectoryState(t, <<0, 0, altitude>>)

\* Faulty variant: a generator with a cursor, which gives altitude 0 on its
\* first call and 1.0 m on every later one.
JumpTrajectory_eval_cursor(t) ==
  LET altitude == IF calls.eval = 0 THEN 0 ELSE OneMetre
  IN TrajectoryState(t, <<0, 0, altitude>>)

\* JumpTrajectory.eval: altitude 0 before t = 1.0 s, 1.0 m from then on.
JumpTrajectory_eval(t) ==
  LET altitude == IF t < 1 * TicksPerSecond THEN 0 ELSE OneMetre
  IN TrajectoryState(t, <<0, 0, altitude>>)

\* EmptyTrajectory.eval: the origin, stamped 0.0, whatever t is.
EmptyTrajectory_eval(t) == TrajectoryState(0, <<0, 0, 0>>)

\* UselessTrajectory.eval of the introduction notebook: "return(TrajectoryState)"
\* hands back the class, not an object made from it.
UselessTrajectory_eval(t) == [class |-> "TrajectoryState"]

\* ------------------------------------------------------------------------
\* Rotations (sym.Rot3, quaternion stored x, y, z, w in units of 1e-8)
\* ------------------------------------------------------------------------

QOne == 100000000

qmul(a, b) == MulDivR(a, b, QOne)

\* The products q[i] * q[j] of the components of a quaternion.
quat_products(q) ==
  Tup([i \in 1..4 |-> Tup([j \in 1..4 |-> qmul(q[i], q[j])])])

\* The rotation matrix of a quaternion (x, y, z, w) from the products P of
\* its components.
rotation_matrix(P) ==
  << <<QOne - 2 * (P[2][2] + P[3][3]), 2 * (P[1][2] - P[3][4]), 2 * (P[1][3] + P[2][4])>>,
     <<2 * (P[1][2] + P[3][4]), QOne - 2 * (P[1][1] + P[3][3]), 2 * (P[2][3] - P[1][4])>>,
     <<2 * (P[1][3] - P[2][4]), 2 * (P[2][3] + P[1][4]), QOne - 2 * (P[1][1] + P[2][2])>> >>

\* R @ v for a matrix R in units of 1e-8.
rotate(R, v) ==
  Tup([r \in 1..3 |-> SumSeq(Tup([c \in 1..3 |-> qmul(R[r][c], v[c])]))])

\* Rot3 * v: the rotation matrix of the stored quaternion applied to v.
Rot3_mul(q, v) ==
  With(quat_products(q), LAMBDA P : rotate(rotation_matrix(P), v))

\* sin and cos of the pitch angle of to_yaw_pitch_roll(), in units of 1e-8.
sin_pitch(q) == Max(-QOne, Min(QOne, 2 * (qmul(q[4], q[2]) - qmul(q[1], q[3]))))

cos_of_sin(s) == 10000 * SqrtR(QOne - qmul(s, s))

cos_pitch(q) == cos_of_sin(sin_pitch(q))

\* The product of a quaternion component (1e-8) and an angular velocity
\* (1e-3 rad/s), in quaternion units per tick.
qw(a, w) == MulDivR(a, w, 100000)

\* Faulty variant: one sign of the first row reversed.
dRot3_G_sign_reversed(q) ==
  << << q[4],  q[3],  q[2], -q[1]>>,
     <<-q[3],  q[4],  q[1], -q[2]>>,
     << q[2], -q[1],  q[4], -q[3]>> >>

\* The matrix G of dRot3 for the stored quaternion (q0, q1, q2, q3).
dRot3_G(q) ==
  << << q[4],  q[3], -q[2], -q[1]>>,
     <<-q[3],  q[4],  q[1], -q[2]>>,
     << q[2], -q[1],  q[4], -q[3]>> >>

\* (G.T @ omega) / 2
half_GT_omega(G, omega) ==
  Tup([c \in 1..4 |->
         DivR(SumSeq(Tup([r \in 1..3 |-> qw(G[r][c], omega[r])])), 2)])

\* dRot3: dq/dt = (G.T @ omega) / 2.
dRot3(R, omega) == half_GT_omega(dRot3_G(R), omega)

\* ------------------------------------------------------------------------
\* Dynamics
\* ------------------------------------------------------------------------

\* Params of the planar notebook: the same, with a scalar inertia.
planar_p == [p EXCEPT !.inertia = 9800]

QuadrotorState(position, velocity, orientation, angular_velocity) ==
  [position |-> position, velocity |-> velocity,
   orientation |-> orientation, angular_velocity |-> angular_velocity]

\* The index after i in the cycle 1, 2, 3.
cyc(i) == (i % 3) + 1

\* np.cross(a, b) of an angular velocity and an angular momentum, in 1e-6 N m.
np_cross(a, b) ==
  Tup([i \in 1..3 |->
         MulDivR(a[cyc(i)], b[cyc(cyc(i))], 100000)
           - MulDivR(a[cyc(cyc(i))], b[cyc(i)], 100000)])

\* A force (1e-4 N) on the mass, as an acceleration.
force_over_mass(f, mass) == Tup([i \in 1..3 |-> MulDivR(f[i], ForceDen, mass)])

\* FullQuadrotorDynamics.state_derivative.  u2 arrives in the units of the
\* mixing rows (x, y in 1e-8 N m, z in 1e-6) and is brought to 1e-6 N m.
net_torque(state, u2) ==
  vec_sub(Tup([i \in 1..3 |-> DivR(u2[i], <<100, 100, 1>>[i])]),
          np_cross(state.angular_velocity, MatVec(p.inertia, state.angular_velocity)))

FullQuadrotorDynamics_state_derivative(state, u1, u2) ==
  With(Rot3_mul(state.orientation, <<0, 0, u1>>), LAMBDA thrust :
  With(net_torque(state, u2), LAMBDA torque :
    QuadrotorState(
      state.velocity,
      force_over_mass(
        vec_add(<<0, 0, MulDivR(p.mass, p.g, ForceDen) * (-1)>>, thrust), p.mass),
      dRot3(state.orientation, state.angular_velocity),
      inv_matmul(p.inertia, torque))))

\* PlanarQuadrotorDynamics.state_derivative.
PlanarQuadrotorDynamics_state_derivative(state, u1, u2) ==
  QuadrotorState(
    state.velocity,
    <<MulDivR(qmul(u1 * (-1), sin_pitch(state.orientation)), ForceDen, planar_p.mass),
      0,
      (-1) * planar_p.g
        + MulDivR(qmul(u1, cos_pitch(state.orientation)), ForceDen, planar_p.mass)>>,
    dRot3(state.orientation, state.angular_velocity),
    <<0, MulDivR(u2, 1, 100 * planar_p.inertia), 0>>)

state_derivative(dynamics, state, u1, u2) ==
  IF dynamics = "full" THEN FullQuadrotorDynamics_state_derivative(state, u1, u2)
  ELSE PlanarQuadrotorDynamics_state_derivative(state, u1, u2)

\* QuadrotorState.to_state_vector and from_state_vector: position,
\* velocity, orientation, angular velocity, in this order.
to_state_vector(s) == s.position \o s.velocity \o s.orientation \o s.angular_velocity

from_state_vector(v) ==
  QuadrotorState(SubSeq(v, 1, 3), SubSeq(v, 4, 6), SubSeq(v, 7, 10), SubSeq(v, 11, 13))

\* Units of a state component gained per tick by one unit of its derivative:
\* a velocity of v units is v position units per tick, an acceleration of a
\* units is 2a velocity units; the quaternion and angular rates are per tick.
per_tick(d) ==
  Tup([i \in 1..Len(d) |-> <<1, 1, 1, 2, 2, 2, 1, 1, 1, 1, 1, 1, 1>>[i] * d[i]])

\* The wrapper step() hands to solve_ivp: vector in, derivative vector out.
fun(dynamics, u1, u2, y) ==
  With(from_state_vector(y), LAMBDA state :
  With(state_derivative(dynamics, state, u1, u2), LAMBDA d :
    per_tick(to_state_vector(d))))

\* A quotient and remainder with a sign on both.
signed(sg, qr) == <<sg * qr[1], sg * qr[2]>>

\* One term n * k / den of a weighted sum, as <<quotient, remainder>> with
\* the sign of n * k on both.
weighted_term(n, k, den) ==
  signed(Sign(n) * Sign(k), MulDivQR(Abs(k), Abs(n), den))

\* The sum of terms <<quotient, remainder>> over den, rounded once.
sum_terms(ts, den) ==
  SumSeq(Tup([j \in 1..Len(ts) |-> ts[j][1]]))
    + DivR(SumSeq(Tup([j \in 1..Len(ts) |-> ts[j][2]])), den)

\* (ns[1] * ks[1] + ... + ns[m] * ks[m]) / den, rounded once.
weighted_sum(ns, ks, den) ==
  sum_terms(Tup([j \in 1..Len(ns) |-> weighted_term(ns[j], ks[j], den)]), den)

\* y + h * (a[1] * K[1] + ... + a[m] * K[m]) / den for a state vector y and
\* derivative vectors K, h being one tick.
rk_combine(y, K, a, den) ==
  Tup([i \in 1..Len(y) |->
         y[i] + weighted_sum(a, Tup([j \in 1..Len(a) |-> K[j][i]]), den)])

\* The Dormand-Prince pair of RK45: the rows of A and the row B, each
\* written over its common denominator.
RK45_A ==
  << [a |-> <<>>, den |-> 1],
     [a |-> <<1>>, den |-> 5],
     [a |-> <<3, 9>>, den |-> 40],
     [a |-> <<44, -168, 160>>, den |-> 45],
     [a |-> <<19372, -76080, 64448, -1908>>, den |-> 6561],
     [a |-> <<477901, -1806240, 1495424, 46746, -45927>>, den |-> 167904] >>

RK45_B == [a |-> <<12985, 0, 64000, 92750, -45927, 18656>>, den |-> 142464]

\* The coefficients a of a step of h ticks: h * a.
times_h(a, h) == Tup([j \in 1..Len(a) |-> h * a[j]])

\* The stages K[1..6] of one step of dt ticks from y:
\* K[s] = fun(y + dt * (A[s] . K)).
RECURSIVE rk_stages(_, _, _, _, _, _)
rk_stages(dynamics, u1, u2, dt, y, K) ==
  IF Len(K) = Len(RK45_A) THEN K
  ELSE With(rk_combine(y, K, times_h(RK45_A[Len(K) + 1].a, dt), RK45_A[Len(K) + 1].den),
            LAMBDA ys :
       With(fun(dynamics, u1, u2, ys), LAMBDA k :
         rk_stages(dynamics, u1, u2, dt, y, Append(K, k))))

\* Faulty variant: one forward Euler step.
solve_ivp_euler(dynamics, u1, u2, dt, y) ==
  With(fun(dynamics, u1, u2, y), LAMBDA k : rk_combine(y, <<k>>, <<dt>>, 1))

\* sp.integrate.solve_ivp(state_derivative, (0, self.dt), state_vector)['y'][:, -1]
\* with the default method RK45: one step of the Dormand-Prince pair over
\* the whole interval of dt ticks, the inputs u1, u2 held constant.
solve_ivp(dynamics, u1, u2, dt, y) ==
  With(rk_stages(dynamics, u1, u2, dt, y, <<>>), LAMBDA K :
    rk_combine(y, K, times_h(RK45_B.a, dt), RK45_B.den))

\* FullQuadrotorDynamics.step: mix the four rotor forces, integrate over
\* self.dt from self.state.
FullQuadrotorDynamics_step(state, dt, rotor_rates) ==
  With(FullQuadrotorDynamics_mix(rotor_rates), LAMBDA u :
  With(solve_ivp("full", u[1], <<u[2], u[3], u[4]>>, dt, to_state_vector(state)),
       LAMBDA y : from_state_vector(y)))

\* Faulty variant: the thrust of all four rotors summed.
PlanarQuadrotorDynamics_mix_four_rotors(rotor_rates) ==
  With(rotor_thrust_model(rotor_rates), LAMBDA F :
    <<F[1] + F[2] + F[3] + F[4], DivR((F[1] - F[2]) * planar_p.arm_length, 2)>>)

\* PlanarQuadrotorDynamics.step, the thrust and the torque: F1, F2 from
\* input.rotor_rates[:2], u1 = F1 + F2, u2 = (F1 - F2) * (p.arm_length/2).
PlanarQuadrotorDynamics_mix(rotor_rates) ==
  With(rotor_thrust_model(<<rotor_rates[1], rotor_rates[2]>>), LAMBDA F :
    <<F[1] + F[2], DivR((F[1] - F[2]) * planar_p.arm_length, 2)>>)

\* PlanarQuadrotorDynamics.step: the first two rotors only.
PlanarQuadrotorDynamics_step(state, dt, rotor_rates) ==
  With(PlanarQuadrotorDynamics_mix(rotor_rates), LAMBDA u :
  With(solve_ivp("planar", u[1], u[2], dt, to_state_vector(state)),
       LAMBDA y : from_state_vector(y)))

\* ------------------------------------------------------------------------
\* Calls that do not return a finite result
\* ------------------------------------------------------------------------

\* The property k_thrust of a Params object.
Params_k_thrust(params) ==
  rotor_model(params.rho, params.rotor_diameter, params.static_thrust_coefficient)

\* What Controller.step raises when the global p is params: in
\* rotor_rates_from_u, k = p.k_thrust / p.k_torque divides two Python floats
\* (ZeroDivisionError for k_torque = 0) and np.linalg.inv refuses a singular
\* mixing matrix (LinAlgError).  The function tests nothing itself.
Controller_step_raises(params) ==
  IF Params_k_torque(params) = 0 THEN "ZeroDivisionError"
  ELSE IF np_linalg_inv_raises(
            Controller_mixing_rows(
              params.arm_length,
              MulDivR(Params_k_thrust(params), KScale, Params_k_torque(params))))
       THEN "LinAlgError"
  ELSE "none"

\* What FullQuadrotorDynamics.step raises when the global p is params: the
\* same division for k, and np.linalg.inv(p.inertia) in state_derivative,
\* called by solve_ivp, which hands the exception on.
FullQuadrotorDynamics_step_raises(params) ==
  IF Params_k_torque(params) = 0 THEN "ZeroDivisionError"
  ELSE IF np_linalg_inv_raises(params.inertia) THEN "LinAlgError"
  ELSE "none"

\* PlanarQuadrotorDynamics.step divides numpy floats only: nothing is raised.
PlanarQuadrotorDynamics_step_raises(params) == "none"

HasNaN(v) == \E i \in 1..Len(v) : v[i] = NaN

Finite(state) == ~HasNaN(to_state_vector(state))

\* Whether state_derivative returns a nan or inf: a nan in the rotor rates or
\* in the state, or the division of the force by a zero mass (a division of
\* numpy floats: nan or inf and a warning, no exception).
FullQuadrotorDynamics_non_finite(params, state, rotor_rates) ==
  params.mass = 0 \/ HasNaN(rotor_rates) \/ ~Finite(state)

\* The planar derivative also divides the torque by the scalar inertia, and
\* reads the first two rotor rates only.
PlanarQuadrotorDynamics_non_finite(params, state, rotor_rates) ==
  \/ params.mass = 0
  \/ params.inertia = 0
  \/ HasNaN(<<rotor_rates[1], rotor_rates[2]>>)
  \/ ~Finite(state)

\* What sp.integrate.solve_ivp does with numbers that are not finite is the
\* library's choice and differs between its versions: it refuses a
\* non-finite initial value (ValueError), or never accepts a step because
\* every comparison with the nan error norm is false (the call does not
\* return), or hands the non-finite numbers back.  step() tests neither the
\* derivative nor the result.  With finite numbers the call returns.
solve_ivp_outcomes(non_finite) ==
  IF non_finite THEN {"returned", "raised", "diverged"} ELSE {"returned"}

\* The state step() stores when the integrator returns non-finite numbers:
\* nan in every component when a rotor rate or the state was nan; nan in the
\* position and the velocity when only the translational acceleration was
\* (zero mass), for a vehicle that does not rotate.
non_finite_state(state, everywhere) ==
  IF everywhere THEN QuadrotorState(NaNs(3), NaNs(3), NaNs(4), NaNs(3))
  ELSE [state EXCEPT !.position = NaNs(3), !.velocity = NaNs(3)]

\* ------------------------------------------------------------------------
\* State
\* ------------------------------------------------------------------------

VARIABLES
  pc,          \* "idle", "called", or the simulator's position in a tick:
               \* "eval", "control", "dynamics"; and how simulate() ended:
               \* "finished", "aborted" (an exception reached the caller),
               \* "diverged" (a call that does not return)
  run,         \* the SimulatorBase arguments of the run, and which global p
               \* the notebook has defined: "default" or one of InvalidParams
  tick,        \* the simulator's clock t, in ticks of 0.01 s
  state,       \* Dynamics.state
  reference,   \* the TrajectoryState of the current tick
  commands,    \* the rotor rates of the current tick
  history,     \* the simulator's output list
  call,        \* the arguments and results of a direct call
  failure      \* the exception simulate() has let through to its caller

vars == <<pc, run, tick, state, reference, commands, history, call, failure, calls>>

Level == <<0, 0, 0, QOne>>

\* Unit quaternions: level, pitched 90 degrees, upside down, and tilted
\* about all three axes.
Orientations ==
  {Level, <<0, 70710678, 0, 70710678>>, <<QOne, 0, 0, 0>>,
   <<48000000, 60000000, 64000000, 0>>}

\* Initial angular velocities: none, and 100 rad/s about the body y axis.
AngularVelocities == {<<0, 0, 0>>, <<0, 100000, 0>>}

\* The run of the 3D notebook: dt = 0.01, t_total = 5.0, at rest at the origin.
Run3D ==
  [dynamics |-> "full", controller |-> "pd", trajectory |-> "jump",
   dt |-> 1, t_total |-> 5 * TicksPerSecond, params |-> "default",
   initial_state |-> QuadrotorState(<<0, 0, 0>>, <<0, 0, 0>>, Level, <<0, 0, 0>>)]

\* The run of the planar notebook: t_total = 1.0, initial velocity [1, 1, 1].
RunPlanar ==
  [dynamics |-> "planar", controller |-> "empty", trajectory |-> "empty",
   dt |-> 1, t_total |-> 1 * TicksPerSecond, params |-> "default",
   initial_state |-> QuadrotorState(<<0, 0, 0>>, <<4000000, 4000000, 4000000>>,
                                    Level, <<0, 0, 0>>)]

\* The number of ticks of a drop run (one second of dt = 0.01).
DropTicks == 100

\* Drops: zero rotor rates, zero initial velocity, from any orientation at
\* rest or spinning from level.
RunsDrop ==
  {r \in {[dynamics |-> d, controller |-> "empty", trajectory |-> "empty",
           dt |-> 1, t_total |-> DropTicks, params |-> "default",
           initial_state |-> QuadrotorState(<<0, 0, OneMetre>>, <<0, 0, 0>>, q, w)] :
            d \in {"planar", "full"}, q \in Orientations, w \in AngularVelocities} :
     \/ r.initial_state.angular_velocity = <<0, 0, 0>>
     \/ r.initial_state.orientation = Level}

\* The largest dt of a short run, in ticks of 0.01 s.
MaxDt == 3

\* The values of t_total of the short runs, in ticks of 0.01 s: none of the
\* loop, one tick whatever dt is, and ends on and off the multiples of dt.
ShortTotals == {-1, 0, 1, 5, 7}

\* Short runs with every dt and t_total: a planar drop without controller
\* and the 3D vehicle under the PD controller, started 5 mm low.
RunsShort ==
  {[dynamics |-> "planar", controller |-> "empty", trajectory |-> "empty",
    dt |-> dt, t_total |-> total, params |-> "default",
    initial_state |-> QuadrotorState(<<0, 0, OneMetre>>, <<0, 0, 0>>, Level, <<0, 0, 0>>)] :
     dt \in 1..MaxDt, total \in ShortTotals}
  \cup
  {[dynamics |-> "full", controller |-> "pd", trajectory |-> "jump",
    dt |-> dt, t_total |-> total, params |-> "default",
    initial_state |-> QuadrotorState(<<0, 0, (-1) * (OneMetre \div 200)>>, <<0, 0, 0>>,
                                     Level, <<0, 0, 0>>)] :
     dt \in 1..MaxDt, total \in ShortTotals}

\* Runs of five ticks of the 3D vehicle under the PD controller from rest in
\* every orientation, 5 mm low, with either trajectory.
RunsTilted ==
  {[dynamics |-> "full", controller |-> "pd", trajectory |-> trajectory,
    dt |-> 1, t_total |-> 5, params |-> "default",
    initial_state |-> QuadrotorState(<<0, 0, (-1) * (OneMetre \div 200)>>, <<0, 0, 0>>,
                                     q, <<0, 0, 0>>)] :
     trajectory \in {"jump", "empty"}, q \in Orientations}

\* An inertia tensor with a zero row.
SingularInertia == << <<980, 0, 0>>, <<0, 0, 0>>, <<0, 0, 1860>> >>

\* Parameter objects the spec calls configuration errors: no arm, no torque
\* coefficient, a singular inertia tensor, no mass.
InvalidParams ==
  [no_arm |-> Params(p.mass, p.inertia, 0, p.static_torque_coefficient),
   no_torque |-> Params(p.mass, p.inertia, p.arm_length, 0),
   no_inertia |-> Params(p.mass, SingularInertia, p.arm_length, p.static_torque_coefficient),
   no_mass |-> Params(0, p.inertia, p.arm_length, p.static_torque_coefficient)]

\* The global p of a run: the Params() of its notebook, or one of the above.
global_p(r) ==
  IF r.params = "default" THEN (IF r.dynamics = "full" THEN p ELSE planar_p)
  ELSE InvalidParams[r.params]

\* Runs of three ticks with an invalid global p.  The PD controller reads p.mass:
\* the vehicle without mass flies the empty controller, the others the PD
\* controller, which reads the fields that differ from the default only
\* where it raises.
RunsInvalid ==
  {[dynamics |-> "full", controller |-> "pd", trajectory |-> "jump",
    dt |-> 1, t_total |-> 3, params |-> c,
    initial_state |-> QuadrotorState(<<0, 0, 0>>, <<0, 0, 0>>, Level, <<0, 0, 0>>)] :
     c \in {"no_arm", "no_torque", "no_inertia"}}
  \cup
  {[dynamics |-> "full", controller |-> "empty", trajectory |-> "empty",
    dt |-> 1, t_total |-> 3, params |-> "no_mass",
    initial_state |-> QuadrotorState(<<0, 0, OneMetre>>, <<0, 0, 0>>, Level, <<0, 0, 0>>)]}

Runs == {Run3D, RunPlanar} \cup RunsDrop \cup RunsShort \cup RunsTilted \cup RunsInvalid

NoRun == [dynamics |-> "none"]

NoState == QuadrotorState(<<0, 0, 0>>, <<0, 0, 0>>, Level, <<0, 0, 0>>)

NoCall == [op |-> "none"]

NoFailure == [error |-> "none"]

NoCalls == [eval |-> 0, control |-> 0, dynamics |-> 0]

\* Inputs of the direct calls.
U1Inputs == {-200000, 0, 40000, 132586, 270000, 1200000}

TorqueInputs == {-228840000, 0, 228840000}

YawInputs == {-83400000, 0, 83400000}

RateInputs == {0, 1800, 3000, 4200, 6000}

\* Altitudes and vertical velocities of the direct calls of Controller.step.
AltitudeInputs == {0, OneMetre, (-1) * (OneMetre \div 2)}

VelocityInputs == {0, 4000000, -4000000}

\* Times of the direct calls of Controller.step.
TimeInputs == {0, 150}

\* Times of the direct calls of eval, in ticks of 0.01 s: before 0, around
\* the jump and after it.
EvalTimeInputs == {-100, 0, 99, 100, 101, 500}

\* The trajectory classes of the three notebooks.
TrajectoryVariants == {"jump", "empty", "useless"}

\* Direct calls of PlanarQuadrotorDynamics.step: rates of the two rotors it
\* reads, rates of the two it does not, and the states it starts from (at
\* rest and level; moving on all axes, pitched 90 degrees and turning).
PlanarRateInputs == {0, 4200, 4500}

IdleRateInputs == {0, 6000}

PlanarStateInputs ==
  {QuadrotorState(<<0, 0, OneMetre>>, <<0, 0, 0>>, Level, <<0, 0, 0>>),
   QuadrotorState(<<0, 0, 0>>, <<4000000, 4000000, 4000000>>,
                  <<0, 70710678, 0, 70710678>>, <<0, 100000, 0>>)}

\* Direct calls of dRot3: the unit quaternions of the runs and two that are
\* not of unit length; angular velocities in 1e-3 rad/s about one axis and
\* about all three.
QuaternionInputs ==
  Orientations \cup {<<30000000, -20000000, 50000000, 120000000>>,
                     <<-7000000, 1000000, 2000000, 3000000>>}

OmegaInputs ==
  {<<0, 0, 0>>, <<0, 100000, 0>>, <<3000, -2000, 1000>>, <<-100000, 50000, 70000>>}

\* What a second call of Controller.step differs in from a first one with
\* the same z position, z velocity and desired altitude: the time, the
\* desired and actual x and y position, the x and y velocity, the
\* orientation and the angular velocity.
ElsewhereInputs ==
  {[t |-> 150, desired |-> <<OneMetre, 0, 0>>, position |-> <<0, (-1) * OneMetre, 0>>,
    velocity |-> <<0, 0, 0>>, orientation |-> Level, angular_velocity |-> <<0, 0, 0>>],
   [t |-> 0, desired |-> <<0, 0, 0>>, position |-> <<0, 0, 0>>,
    velocity |-> <<4000000, 2000000, 0>>, orientation |-> Level,
    angular_velocity |-> <<0, 0, 0>>],
   [t |-> 0, desired |-> <<0, 0, 0>>, position |-> <<0, 0, 0>>,
    velocity |-> <<0, 0, 0>>, orientation |-> <<48000000, 60000000, 64000000, 0>>,
    angular_velocity |-> <<0, 100000, 0>>],
   [t |-> 500, desired |-> <<0, OneMetre, 0>>, position |-> <<OneMetre, 0, 0>>,
    velocity |-> <<-4000000, 1000000, 0>>, orientation |-> <<QOne, 0, 0, 0>>,
    angular_velocity |-> <<3000, -2000, 1000>>]}

\* Rotor rates of the direct calls of FullQuadrotorDynamics.step: hover rates
\* and a nan among them.
StepRateInputs == {<<4200, 4200, 4200, 4200>>, <<NaN, 4200, 4200, 4200>>}

\* ------------------------------------------------------------------------
\* The simulator's calls into the components of a run
\* ------------------------------------------------------------------------

\* trajectory.eval(t)
Trajectory_eval(r, t) ==
  IF r.trajectory = "jump" THEN JumpTrajectory_eval(t) ELSE EmptyTrajectory_eval(t)

\* controller.step(t, trajectory_state, state): the commands it returns, ...
Controller_commands(r, t, trajectory, actual) ==
  IF r.controller = "pd" THEN Controller_step(t, trajectory, actual)
  ELSE EmptyController_step(t, trajectory, actual)

\* ... the two objects it was passed, as the call leaves them, ...
Controller_arguments(r, trajectory, actual) ==
  IF r.controller = "pd" THEN Controller_step_arguments(trajectory, actual)
  ELSE <<trajectory, actual>>

\* ... and the exception it raises, if any.
Controller_raises(r) ==
  IF r.controller = "pd" THEN Controller_step_raises(global_p(r)) ELSE "none"

\* dynamics.step(t, commands): the exception of the step itself, ...
Dynamics_raises(r) ==
  IF r.dynamics = "full" THEN FullQuadrotorDynamics_step_raises(global_p(r))
  ELSE PlanarQuadrotorDynamics_step_raises(global_p(r))

\* ... whether the integrator is given non-finite numbers, ...
Dynamics_non_finite(r, actual, rates) ==
  IF r.dynamics = "full" THEN FullQuadrotorDynamics_non_finite(global_p(r), actual, rates)
  ELSE PlanarQuadrotorDynamics_non_finite(global_p(r), actual, rates)

\* ... and the state it stores and returns when the integrator returns.
Dynamics_state(r, actual, rates) ==
  IF Dynamics_non_finite(r, actual, rates)
  THEN non_finite_state(actual, HasNaN(rates)
                                  \/ HasNaN(actual.orientation \o actual.angular_velocity))
  ELSE IF r.dynamics = "full" THEN FullQuadrotorDynamics_step(actual, r.dt, rates)
  ELSE PlanarQuadrotorDynamics_step(actual, r.dt, rates)

\* How a call of dynamics.step can end.
Dynamics_outcomes(r, actual, rates) ==
  IF Dynamics_raises(r) # "none" THEN {"raised"}
  ELSE solve_ivp_outcomes(Dynamics_non_finite(r, actual, rates))

\* Faulty variant: one more tick when t has reached t_total.
SimulatorBase_running_inclusive(t, t_total) == t <= t_total

\* The loop of simulate(): ticks while t < t_total, t advanced by dt.
SimulatorBase_running(t, t_total) == t < t_total

SimulatorBase_advance(t, dt) == t + dt

\* One entry of the output list.
SimulatorState(t, actual, command, trajectory) ==
  [t |-> t, state |-> actual, command |-> command, trajectory |-> trajectory]

\* Faulty variant: the newest entry is put first.
SimulatorBase_record_newest_first(output, entry) == <<entry>> \o output

SimulatorBase_record(output, entry) == Append(output, entry)

\* Faulty variant: the exception is swallowed and the history returned.
SimulatorBase_on_exception_swallowed(stage) == "finished"

\* Where simulate() goes when a component raises in the given stage: the
\* exception is not caught.
SimulatorBase_on_exception(stage) == "aborted"

\* Faulty variant: the dynamics are stepped before the controller.
SimulatorBase_next_dynamics_first(stage) ==
  CASE stage = "eval" -> "dynamics"
    [] stage = "dynamics" -> "control"
    [] stage = "control" -> "eval"

\* The stage after a stage that returned.
SimulatorBase_next(stage) ==
  CASE stage = "eval" -> "control"
    [] stage = "control" -> "dynamics"
    [] stage = "dynamics" -> "eval"

\* The history simulate() returns for a run, as a function of the run's
\* inputs alone: the ticks from time t on, for a vehicle in the state actual,
\* appended to output.
RECURSIVE SimulatorBase_output(_, _, _, _)
SimulatorBase_output(r, t, actual, output) ==
  IF ~SimulatorBase_running(t, r.t_total) THEN output
  ELSE With(Trajectory_eval(r, t), LAMBDA trajectory :
       With(Controller_commands(r, t, trajectory, actual), LAMBDA command :
       With(Dynamics_state(r, actual, command), LAMBDA new :
       With(SimulatorBase_record(output, SimulatorState(t, new, command, trajectory)),
            LAMBDA longer :
              SimulatorBase_output(r, SimulatorBase_advance(t, r.dt), new, longer)))))

Exception(error, stage, t) == [error |-> error, stage |-> stage, tick |-> t]

Init ==
  /\ pc = "idle"
  /\ run = NoRun
  /\ tick = 0
  /\ state = NoState
  /\ reference = TrajectoryState(0, <<0, 0, 0>>)
  /\ commands = <<0, 0, 0, 0>>
  /\ history = <<>>
  /\ call = NoCall
  /\ failure = NoFailure
  /\ calls = NoCalls

\* A direct call of Controller.rotor_rates_from_u(u).
CallRotorRatesFromU ==
  /\ pc = "idle"
  /\ \E u1 \in U1Inputs, u2x \in TorqueInputs, u2y \in TorqueInputs, u2z \in YawInputs :
     \E raw \in {force_array_raw(<<u1, u2x, u2y, u2z>>)} :
     \E forces \in {force_array(raw)} :
     \E omegas \in {math_omegas(forces)} :
       call' = [op |-> "rotor_rates_from_u", u |-> <<u1, u2x, u2y, u2z>>,
                force_raw |-> raw,
                force |-> forces,
                omegas |-> omegas,
                rates |-> rate_clamp_all(omegas)]
  /\ pc' = "called"
  /\ UNCHANGED <<run, tick, state, reference, commands, history, failure, calls>>

\* The mixing half of FullQuadrotorDynamics.step on given rotor rates, and
\* the controller's inverse applied to its result.
CallMix ==
  /\ pc = "idle"
  /\ \E r1 \in RateInputs, r2 \in RateInputs, r3 \in RateInputs, r4 \in RateInputs :
     \E u \in {FullQuadrotorDynamics_mix(<<r1, r2, r3, r4>>)} :
       call' = [op |-> "mix", rates |-> <<r1, r2, r3, r4>>,
                forces |-> rotor_thrust_model(<<r1, r2, r3, r4>>),
                u |-> u,
                back_forces |-> force_array_raw(u),
                back |-> rotor_rates_from_u(u)]
  /\ pc' = "called"
  /\ UNCHANGED <<run, tick, state, reference, commands, history, failure, calls>>

\* A direct call of Controller.step on a level vehicle, and of the dynamics'
\* mixing and state derivative on the rates it commands.
CallControllerStep ==
  /\ pc = "idle"
  /\ \E t \in TimeInputs, x \in {0, OneMetre}, z \in AltitudeInputs, vz \in VelocityInputs,
        xd \in {0, OneMetre}, zd \in {0, OneMetre} :
     \E actual \in {QuadrotorState(<<x, 0, z>>, <<0, 0, vz>>, Level, <<0, 0, 0>>)} :
     \E trajectory \in {TrajectoryState(t, <<xd, 0, zd>>)} :
     \E rates \in {Controller_step(t, trajectory, actual)} :
     \E mixed \in {FullQuadrotorDynamics_mix(rates)} :
       call' = [op |-> "step", t |-> t, state |-> actual, trajectory |-> trajectory,
                u |-> Controller_u(trajectory, actual),
                rates |-> rates, mixed |-> mixed,
                arguments |-> Controller_step_arguments(trajectory, actual),
                derivative |-> FullQuadrotorDynamics_state_derivative(
                                 actual, mixed[1], <<mixed[2], mixed[3], mixed[4]>>)]
  /\ pc' = "called"
  /\ UNCHANGED <<run, tick, state, reference, commands, history, failure, calls>>

\* A direct call of FullQuadrotorDynamics.step on a vehicle at rest, with
\* dt = 0.01 and the default parameters.
CallDynamicsStep ==
  /\ pc = "idle"
  /\ \E rates \in StepRateInputs :
     \E non_finite \in {FullQuadrotorDynamics_non_finite(p, NoState, rates)} :
     \E outcome \in solve_ivp_outcomes(non_finite) :
       call' = [op |-> "dynamics_step", rates |-> rates,
                non_finite |-> non_finite,
                outcome |-> outcome,
                state |-> IF outcome # "returned" THEN NoState
                          ELSE IF non_finite THEN non_finite_state(NoState, TRUE)
                          ELSE FullQuadrotorDynamics_step(NoState, 1, rates)]
  /\ pc' = "called"
  /\ UNCHANGED <<run, tick, state, reference, commands, history, failure, calls>>

\* Two direct calls of PlanarQuadrotorDynamics.step from the same state with
\* dt = 0.01: with the given four rates, and with the same rates on rotors
\* 1 and 2 and none on rotors 3 and 4.
CallPlanarStep ==
  /\ pc = "idle"
  /\ \E r1 \in PlanarRateInputs, r2 \in PlanarRateInputs,
        r3 \in IdleRateInputs, r4 \in IdleRateInputs, before \in PlanarStateInputs :
     \E new \in {PlanarQuadrotorDynamics_step(before, 1, <<r1, r2, r3, r4>>)} :
     \E other \in {PlanarQuadrotorDynamics_step(before, 1, <<r1, r2, 0, 0>>)} :
       call' = [op |-> "planar_step", rates |-> <<r1, r2, r3, r4>>,
                before |-> before,
                u |-> PlanarQuadrotorDynamics_mix(<<r1, r2, r3, r4>>),
                new |-> new,
                other |-> other]
  /\ pc' = "called"
  /\ UNCHANGED <<run, tick, state, reference, commands, history, failure, calls>>

\* Two direct calls of Controller.step that agree on the z position, the z
\* velocity and the desired altitude: one at t = 0 on a level vehicle at rest
\* on the z axis, one that differs in everything else.
CallControllerStepTwice ==
  /\ pc = "idle"
  /\ \E z \in AltitudeInputs \cup {OneMetre \div 200, (-1) * (OneMetre \div 200)},
        vz \in VelocityInputs, zd \in {0, OneMetre}, e \in ElsewhereInputs :
     \E first \in {[t |-> 0,
                     trajectory |-> TrajectoryState(0, <<0, 0, zd>>),
                     state |-> QuadrotorState(<<0, 0, z>>, <<0, 0, vz>>, Level, <<0, 0, 0>>)]} :
     \E second \in {[t |-> e.t,
                      trajectory |-> TrajectoryState(e.t, vec_add(e.desired, <<0, 0, zd>>)),
                      state |-> QuadrotorState(vec_add(e.position, <<0, 0, z>>),
                                               vec_add(e.velocity, <<0, 0, vz>>),
                                               e.orientation, e.angular_velocity)]} :
       call' = [op |-> "step_twice", first |-> first, second |-> second,
                first_rates |-> Controller_step(first.t, first.trajectory, first.state),
                second_rates |-> Controller_step(second.t, second.trajectory, second.state)]
  /\ pc' = "called"
  /\ UNCHANGED <<run, tick, state, reference, commands, history, failure, calls>>

\* A direct call of dRot3(R, omega).
CallDRot3 ==
  /\ pc = "idle"
  /\ \E q \in QuaternionInputs, omega \in OmegaInputs :
       call' = [op |-> "dRot3", q |-> q, omega |-> omega,
                G |-> dRot3_G(q),
                quat_dot |-> dRot3(q, omega)]
  /\ pc' = "called"
  /\ UNCHANGED <<run, tick, state, reference, commands, history, failure, calls>>

\* A direct call of eval(t) on an object of one of the trajectory classes.
CallTrajectoryEval ==
  /\ pc = "idle"
  /\ \E variant \in TrajectoryVariants, t \in EvalTimeInputs :
       call' = [op |-> "eval", variant |-> variant, t |-> t,
                result |-> CASE variant = "jump" -> JumpTrajectory_eval(t)
                             [] variant = "empty" -> EmptyTrajectory_eval(t)
                             [] variant = "useless" -> UselessTrajectory_eval(t)]
  /\ pc' = "called"
  /\ UNCHANGED <<run, tick, state, reference, commands, history, failure, calls>>

\* SimulatorBase(dt, dynamics, controller, trajectory, initial_state, t_total)
\* followed by simulate(): the dynamics start from initial_state at t = 0.
\* Nothing on the way tests the global p.
Simulate ==
  /\ pc = "idle"
  /\ \E r \in Runs :
       /\ run' = r
       /\ state' = r.initial_state
  /\ tick' = 0
  /\ history' = <<>>
  /\ calls' = NoCalls
  /\ pc' = "eval"
  /\ UNCHANGED <<reference, commands, call, failure>>

\* Loop head and first stage of a tick: trajectory.eval(t).
TrajectoryEval ==
  /\ pc = "eval"
  /\ SimulatorBase_running(tick, run.t_total)
  /\ reference' = Trajectory_eval(run, tick)
  /\ calls' = [calls EXCEPT !.eval = @ + 1]
  /\ pc' = SimulatorBase_next("eval")
  /\ UNCHANGED <<run, tick, state, commands, history, call, failure>>

\* Second stage: controller.step(t, trajectory_state, state).
ControllerStep ==
  /\ pc = "control"
  /\ Controller_raises(run) = "none"
  /\ commands' = Controller_commands(run, tick, reference, state)
  /\ \E after \in {Controller_arguments(run, reference, state)} :
       /\ reference' = after[1]
       /\ state' = after[2]
  /\ calls' = [calls EXCEPT !.control = @ + 1]
  /\ pc' = SimulatorBase_next("control")
  /\ UNCHANGED <<run, tick, history, call, failure>>

\* controller.step raises: the exception leaves simulate().
ControllerStepRaises ==
  /\ pc = "control"
  /\ Controller_raises(run) # "none"
  /\ failure' = Exception(Controller_raises(run), "control", tick)
  /\ calls' = [calls EXCEPT !.control = @ + 1]
  /\ pc' = SimulatorBase_on_exception("control")
  /\ UNCHANGED <<run, tick, state, reference, commands, history, call>>

\* Third stage: dynamics.step(t, commands) returns; the tick is recorded and
\* the clock advances by dt.
DynamicsStep ==
  /\ pc = "dynamics"
  /\ "returned" \in Dynamics_outcomes(run, state, commands)
  /\ \E new \in {Dynamics_state(run, state, commands)} :
       /\ state' = new
       /\ history' = SimulatorBase_record(
                       history, SimulatorState(tick, new, commands, reference))
  /\ tick' = SimulatorBase_advance(tick, run.dt)
  /\ calls' = [calls EXCEPT !.dynamics = @ + 1]
  /\ pc' = SimulatorBase_next("dynamics")
  /\ UNCHANGED <<run, reference, commands, call, failure>>

\* dynamics.step raises, itself or from the integrator.
DynamicsStepRaises ==
  /\ pc = "dynamics"
  /\ "raised" \in Dynamics_outcomes(run, state, commands)
  /\ failure' = Exception(IF Dynamics_raises(run) # "none" THEN Dynamics_raises(run)
                          ELSE "ValueError", "dynamics", tick)
  /\ calls' = [calls EXCEPT !.dynamics = @ + 1]
  /\ pc' = SimulatorBase_on_exception("dynamics")
  /\ UNCHANGED <<run, tick, state, reference, commands, history, call>>

\* dynamics.step does not return: the integrator never accepts a step.
DynamicsStepDiverges ==
  /\ pc = "dynamics"
  /\ "diverged" \in Dynamics_outcomes(run, state, commands)
  /\ calls' = [calls EXCEPT !.dynamics = @ + 1]
  /\ pc' = "diverged"
  /\ UNCHANGED <<run, tick, state, reference, commands, history, call, failure>>

\* The loop ends once t >= t_total; simulate() returns the history.
Finish ==
  /\ pc = "eval"
  /\ ~SimulatorBase_running(tick, run.t_total)
  /\ pc' = "finished"
  /\ UNCHANGED <<run, tick, state, reference, commands, history, call, failure, calls>>

Next ==
  \/ CallRotorRatesFromU
  \/ CallMix
  \/ CallControllerStep
  \/ CallDynamicsStep
  \/ CallTrajectoryEval
  \/ CallPlanarStep
  \/ CallDRot3
  \/ CallControllerStepTwice
  \/ Simulate
  \/ TrajectoryEval
  \/ ControllerStep
  \/ ControllerStepRaises
  \/ DynamicsStep
  \/ DynamicsStepRaises
  \/ DynamicsStepDiverges
  \/ Finish

Spec == Init /\ [][Next]_vars

\* The stages of a tick, in which simulate() is inside one of its calls.
Stages == {"eval", "control", "dynamics"}

\* simulate() is one uninterrupted call on one thread: the call it is inside
\* comes to an end (it returns, raises, or is seen never to return), which
\* takes the loop out of its present stage.
SimulatorBase_simulate ==
  /\ pc \in Stages
  /\ pc' \in (Stages \cup {"finished", "aborted", "diverged"}) \ {pc}

FairSpec == Spec /\ WF_pc(SimulatorBase_simulate)

\* ------------------------------------------------------------------------
\* Properties
\* ------------------------------------------------------------------------

InRateLimits(w) ==
  w # NaN /\ controller_p.rotor_rate_min <= w /\ w <= controller_p.rotor_rate_max

Simulating == pc \in {"eval", "control", "dynamics", "finished"}

C3_ForwardMixing ==
  call.op = "mix" =>
    LET F == call.forces
        L == p.arm_length
        k == MulDivR(k_thrust, KScale, k_torque)
    IN /\ \A i \in 1..4 : F[i] = MulDivR(call.rates[i] * call.rates[i], k_thrust, KDen)
       /\ call.u[1] = F[1] + F[2] + F[3] + F[4]
       /\ call.u[2] = L * (F[2] - F[4])
       /\ call.u[3] = L * (F[3] - F[1])
       /\ call.u[4] = k * (F[1] - F[2] + F[3] - F[4])

\* Four different rotor rates that produce a torque about every axis.
C3_Witness ==
  /\ call.op = "mix"
  /\ call.u[2] # 0 /\ call.u[3] # 0 /\ call.u[4] # 0
  /\ Cardinality({call.rates[i] : i \in 1..4}) = 4

RowAbsSum(row) == SumSeq(Tup([c \in 1..Len(row) |-> Abs(row[c])]))

\* C4: the matrix the Controller inverts is the matrix the Dynamics applies:
\* the two literals are equal, M_dyn @ (inv(M_ctrl) @ u) gives back u (to
\* within the rounding of the four forces to one force unit each), and
\* inv(M_ctrl) @ (M_dyn @ F) gives back the forces F exactly.
C4_SameMixingMatrix ==
  /\ Controller_mixing_matrix = FullQuadrotorDynamics_mixing_matrix
  /\ call.op = "rotor_rates_from_u" =>
       LET back == MatVec(FullQuadrotorDynamics_mixing_matrix, call.force_raw)
       IN \A j \in 1..4 :
            Abs(back[j] - call.u[j]) <= RowAbsSum(FullQuadrotorDynamics_mixing_matrix[j])
  /\ call.op = "mix" => call.back_forces = call.forces

\* An actuation vector with a thrust and a torque about every axis.
C4_Witness ==
  /\ call.op = "rotor_rates_from_u"
  /\ call.u[1] > 0 /\ call.u[2] # 0 /\ call.u[3] # 0 /\ call.u[4] # 0

\* C5: with four equal rotor rates r the mixed torque u2 is zero on all
\* three axes and the thrust u1 is 4 * k_thrust * r^2.
C5_EqualRatesNoTorque ==
  (call.op = "mix" /\ \A i \in 1..4 : call.rates[i] = call.rates[1]) =>
    /\ call.u[2] = 0 /\ call.u[3] = 0 /\ call.u[4] = 0
    /\ call.u[1] = 4 * MulDivR(call.rates[1] * call.rates[1], k_thrust, KDen)

\* Four equal, nonzero rates.
C5_Witness ==
  /\ call.op = "mix"
  /\ call.rates = <<4200, 4200, 4200, 4200>>
  /\ call.u[1] > 0

\* C6: rotor rates inside [rotor_rate_min, rotor_rate_max], mixed forward to
\* u by the dynamics and passed to rotor_rates_from_u, come back unchanged.
C6_RoundTrip ==
  (call.op = "mix" /\ \A i \in 1..4 : InRateLimits(call.rates[i])) =>
    call.back = call.rates

\* Four different admissible rates, the two limits among them.
C6_Witness ==
  /\ call.op = "mix"
  /\ call.rates = <<1800, 3000, 6000, 4200>>
  /\ call.back = call.rates

Hovering(c) ==
  /\ c.trajectory.position = c.state.position
  /\ c.trajectory.velocity = <<0, 0, 0>>
  /\ c.state.velocity = <<0, 0, 0>>

\* The change of total thrust when each of the four rates moves by one rate
\* unit (0.1 rad/s), the resolution to which a rate is held.
RateQuantumThrust(rates) ==
  SumSeq(rotor_thrust_model(Tup([i \in 1..4 |-> rates[i] + 1])))
    - SumSeq(rotor_thrust_model(rates))

\* C7: when the reference equals the actual state and the velocities are
\* zero, Controller.step commands the thrust u1 = mass * g and no torque, and
\* the rates it returns, fed to FullQuadrotorDynamics at level orientation,
\* give a total thrust of mass * g and a zero velocity derivative (to within
\* the thrust of one rate unit per rotor).
C7_HoverEquilibrium ==
  (call.op = "step" /\ Hovering(call)) =>
    LET weight == MulDivR(p.mass, p.g, ForceDen)
        tol == RateQuantumThrust(call.rates)
    IN /\ call.u = <<weight, 0, 0, 0>>
       /\ Abs(call.mixed[1] - weight) <= tol
       /\ call.mixed[2] = 0 /\ call.mixed[3] = 0 /\ call.mixed[4] = 0
       /\ call.derivative.velocity[1] = 0
       /\ call.derivative.velocity[2] = 0
       /\ Abs(call.derivative.velocity[3]) <= MulDivR(tol, ForceDen, p.mass)
       /\ call.derivative.position = <<0, 0, 0>>
       /\ call.derivative.angular_velocity = <<0, 0, 0>>

\* Hover away from the origin.
C7_Witness ==
  /\ call.op = "step"
  /\ Hovering(call)
  /\ call.state.position = <<OneMetre, 0, OneMetre>>

Dropped == Simulating /\ run \in RunsDrop

\* C8: with zero rotor rates and zero initial velocity, after n ticks the
\* vertical velocity is -g * n * dt and the altitude z0 - g * (n * dt)^2 / 2,
\* for every initial orientation, under the planar and under the full
\* dynamics; the altitude never increases from one tick to the next.
C8_FreeFall ==
  Dropped =>
    /\ state.velocity[3] = (-2) * p.g * tick
    /\ state.position[3] = run.initial_state.position[3] - p.g * tick * tick
    /\ state.velocity[1] = 0 /\ state.velocity[2] = 0
    /\ \A n \in 1..Len(history) :
         history[n].state.position[3] <=
           (IF n = 1 THEN run.initial_state.position[3]
            ELSE history[n - 1].state.position[3])

\* A full-dynamics drop from a tilted orientation, at the end of the run.
C8_Witness ==
  /\ pc = "finished"
  /\ run \in RunsDrop
  /\ run.dynamics = "full"
  /\ run.initial_state.orientation = <<48000000, 60000000, 64000000, 0>>
  /\ tick = DropTicks

\* The squared norm of a stored quaternion, in units of 1e-8.
NormSquared(q) == qmul(q[1], q[1]) + qmul(q[2], q[2]) + qmul(q[3], q[3]) + qmul(q[4], q[4])

\* C9: after any sequence of steps the orientation quaternion has a norm
\* within 1e-6 of 1 (its squared norm within 2e-6 of 1).
C9_QuaternionUnitNorm ==
  Simulating => Abs(NormSquared(state.orientation) - QOne) <= 2 * (QOne \div 1000000)

InBand(z) == 95 * (OneMetre \div 100) <= z /\ z <= 105 * (OneMetre \div 100)

\* C10: the 3D notebook's run (JumpTrajectory, full dynamics, PD controller,
\* dt = 0.01, t_total = 5.0, from rest at the origin) ends with the altitude
\* within 5% of 1.0 m, having entered that band after starting outside it,
\* and with a vertical velocity of less than 1 mm/s.
C10_JumpSettles ==
  (pc = "finished" /\ run = Run3D) =>
    /\ InBand(state.position[3])
    /\ Abs(state.velocity[3]) <= 4000000 \div 1000
    /\ \E n \in 2..Len(history) :
         /\ InBand(history[n].state.position[3])
         /\ ~InBand(history[n - 1].state.position[3])

\* The run has ended after 500 ticks, the reference having jumped at t = 1.0.
C10_Witness ==
  /\ pc = "finished"
  /\ run = Run3D
  /\ Len(history) = 5 * TicksPerSecond
  /\ history[100].trajectory.position[3] = 0
  /\ history[101].trajectory.position[3] = OneMetre

\* A run has been started: simulate() is executing or has ended.
Started == pc \in {"eval", "control", "dynamics", "finished", "aborted", "diverged"}

\* The clock of a run: t = 0 at the first tick, dt more at each, every tick
\* begun before t_total, and at the end no fewer ticks than reach t_total.
C11_Clock ==
  Started =>
    /\ tick = Len(history) * run.dt
    /\ \A n \in 1..Len(history) :
         /\ history[n].t = (n - 1) * run.dt
         /\ history[n].t < run.t_total
    /\ pc \in {"control", "dynamics"} => tick < run.t_total
    /\ pc = "finished" => tick >= run.t_total

\* The steps of the clock: it starts at 0, moves by dt or not at all, and a
\* finished run stays finished with its history.
C11_ClockStep ==
  /\ (pc = "idle" /\ pc' = "eval") => tick' = 0 /\ history' = <<>>
  /\ (Started /\ tick' # tick) => (tick' = tick + run.dt /\ pc = "dynamics")
  /\ pc = "finished" => (pc' = "finished" /\ history' = history)

\* C11: for every dt > 0 and every t_total, simulate() starts at t = 0,
\* advances the time by exactly dt per tick, runs no tick once t >= t_total,
\* never leaves finished, and (with parameters under which every component
\* call returns) reaches finished after finitely many ticks.
C11_RunsToTotal ==
  /\ []C11_Clock
  /\ [][C11_ClockStep]_vars
  /\ (Started /\ run.params = "default") ~> (pc = "finished")

\* A run whose t_total is no multiple of dt, finished one tick past it.
C11_Witness ==
  /\ pc = "finished"
  /\ run.dt = 2 /\ run.t_total = 7
  /\ Len(history) = 4 /\ tick = 8

\* The state the last completed tick left in the dynamics: the initial state
\* before the first tick.
PreviousState ==
  IF history = <<>> THEN run.initial_state ELSE history[Len(history)].state

\* The calls made so far, given the ticks completed and the calls of the tick in
\* progress that have been made.
CallsAre(in_eval, in_control, in_dynamics) ==
  /\ calls.eval = Len(history) + in_eval
  /\ calls.control = Len(history) + in_control
  /\ calls.dynamics = Len(history) + in_dynamics

C12_Calls ==
  Started =>
    /\ pc \in {"eval", "finished"} => CallsAre(0, 0, 0)
    /\ pc = "control" =>
         /\ CallsAre(1, 0, 0)
         /\ reference = Trajectory_eval(run, tick)
         /\ state = PreviousState
    /\ pc = "dynamics" =>
         /\ CallsAre(1, 1, 0)
         /\ reference = Trajectory_eval(run, tick)
         /\ state = PreviousState
         /\ commands = Controller_commands(run, tick, reference, PreviousState)
    /\ pc = "aborted" =>
         IF failure.stage = "control" THEN CallsAre(1, 1, 0) ELSE CallsAre(1, 1, 1)
    /\ pc = "diverged" => CallsAre(1, 1, 1)

C12_Order ==
  /\ (pc = "eval" /\ pc' # pc) => pc' \in {"control", "finished"}
  /\ (pc = "control" /\ pc' # pc) => pc' \in {"dynamics", "aborted"}
  /\ (pc = "dynamics" /\ pc' # pc) => pc' \in {"eval", "aborted", "diverged"}
  /\ (Started /\ calls' # calls) =>
       \/ /\ pc = "eval"
          /\ calls' = [calls EXCEPT !.eval = @ + 1]
       \/ /\ pc = "control"
          /\ calls' = [calls EXCEPT !.control = @ + 1]
       \/ /\ pc = "dynamics"
          /\ calls' = [calls EXCEPT !.dynamics = @ + 1]
          /\ pc' = "eval" =>
               /\ Len(history') = Len(history) + 1
               /\ history'[Len(history')] =
                    [t |-> tick, state |-> state', command |-> commands,
                     trajectory |-> reference]

\* C12: in every tick trajectory.eval, controller.step and dynamics.step are
\* called in that order, each once; controller.step is given the reference
\* of the same tick and the state the previous tick's dynamics.step left (the
\* initial state in the first tick), and dynamics.step is given the commands
\* of the same tick.
C12_TickOrder == []C12_Calls /\ [][C12_Order]_vars

C12_Witness ==
  /\ pc = "dynamics"
  /\ run.controller = "pd" /\ run.params = "default"
  /\ calls = [eval |-> 3, control |-> 3, dynamics |-> 2]
  /\ commands # history[2].command

C13_Entries ==
  \A n \in 1..Len(history) :
    /\ DOMAIN history[n] = {"t", "state", "command", "trajectory"}
    /\ n > 1 => history[n - 1].t < history[n].t

C13_Append ==
  /\ \/ history' = history
     \/ /\ Len(history') = Len(history) + 1
        /\ SubSeq(history', 1, Len(history)) = history
        /\ pc = "dynamics" /\ pc' = "eval"
  /\ (pc = "dynamics" /\ pc' = "eval") => Len(history') = Len(history) + 1

\* C13: the history is append-only: a completed tick appends exactly one
\* entry (time, state, commands, reference), nothing else changes the history,
\* no earlier entry is changed or removed, and the times of the entries
\* increase strictly in insertion order.
C13_AppendOnly == []C13_Entries /\ [][C13_Append]_vars

C13_Witness ==
  /\ pc = "eval"
  /\ run.dt = 3
  /\ Len(history) = 3
  /\ history[1].t = 0 /\ history[2].t = 3 /\ history[3].t = 6
  /\ history[1].state # history[2].state

C14_Surfaced ==
  /\ pc = "aborted" <=> failure # NoFailure
  /\ failure # NoFailure =>
       /\ failure.error \in {"ZeroDivisionError", "LinAlgError", "ValueError"}
       /\ failure.stage \in {"control", "dynamics"}
       /\ failure.tick = tick
       /\ tick = Len(history) * run.dt
       /\ calls[failure.stage] = Len(history) + 1

C14_Abort ==
  /\ (pc = "control" /\ Controller_raises(run) # "none") =>
       /\ pc' = "aborted"
       /\ failure' = [error |-> Controller_raises(run), stage |-> "control", tick |-> tick]
  /\ (pc = "dynamics" /\ Dynamics_raises(run) # "none") =>
       /\ pc' = "aborted"
       /\ failure' = [error |-> Dynamics_raises(run), stage |-> "dynamics", tick |-> tick]
  /\ pc = "aborted" => vars' = vars

\* C14: when a component's call fails in a tick, the run aborts in that tick
\* with the failure handed to the caller: the call is not made again, no
\* later tick runs, the tick is not recorded and the run never finishes.
C14_FailureAborts == []C14_Surfaced /\ [][C14_Abort]_vars

C14_Witness ==
  /\ pc = "aborted"
  /\ failure = [error |-> "ValueError", stage |-> "dynamics", tick |-> 1]
  /\ Len(history) = 1
  /\ calls = [eval |-> 2, control |-> 2, dynamics |-> 2]

\* C15: when the derivative or the integrated state holds a nan or inf,
\* Dynamics.step ends with a reported numerical failure, and the state it
\* stores and returns never holds a non-finite component.
C15_NonFiniteAborts ==
  /\ (pc = "called" /\ call.op = "dynamics_step" /\ call.non_finite) =>
       /\ call.outcome = "raised"
       /\ Finite(call.state)
  /\ Started =>
       /\ Finite(state)
       /\ \A n \in 1..Len(history) : Finite(history[n].state)
       /\ pc # "diverged"

\* C16: a configuration without mass, with a singular inertia tensor or with
\* a singular mixing matrix (no arm length, no torque coefficient) is
\* rejected when it is constructed: no Controller.step and no Dynamics.step
\* is ever called in a run with such a configuration.
C16_InvalidRejected ==
  (Started /\ run.params # "default") =>
    /\ calls.control = 0
    /\ calls.dynamics = 0

ReplayTicks == 7

C19_ArgumentsKept ==
  (pc = "called" /\ call.op = "step") => call.arguments = <<call.trajectory, call.state>>

C19_Frame ==
  /\ (Started /\ state' # state) =>
       /\ pc = "dynamics"
       /\ calls'.dynamics = calls.dynamics + 1
  /\ (Started /\ reference' # reference) => pc = "eval"
  /\ (pc = "dynamics" /\ pc' = "eval") => history'[Len(history')].state = state'

\* C19: only dynamics.step changes the state of the vehicle: trajectory.eval
\* and controller.step leave the state held by the dynamics, and the state and
\* reference objects passed to them, as they were, and the state dynamics.step
\* returns is the state the dynamics then hold.
C19_OnlyDynamicsWrites == []C19_ArgumentsKept /\ [][C19_Frame]_vars

C19_Witness ==
  /\ pc = "dynamics"
  /\ run.controller = "pd"
  /\ Len(history) = 2
  /\ state = history[2].state
  /\ state # history[1].state
  /\ reference.position # state.position

\* Row 3 of a gain matrix times an error vector, term by term.
GainRowZ(K, e, den) ==
  MulDivR(K[3][1], e[1], den) + MulDivR(K[3][2], e[2], den) + MulDivR(K[3][3], e[3], den)

\* mass * (g + a_z), with a_z the z component of K_d @ e_v + K_p @ e_p.
ThrustLaw(desired, actual) ==
  MulDivR(p.mass,
          p.g + GainRowZ(controller_p.K_d,
                         <<desired.velocity[1] - actual.velocity[1],
                           desired.velocity[2] - actual.velocity[2],
                           desired.velocity[3] - actual.velocity[3]>>, 200)
              + GainRowZ(controller_p.K_p,
                         <<desired.position[1] - actual.position[1],
                           desired.position[2] - actual.position[2],
                           desired.position[3] - actual.position[3]>>, 20000),
          ForceDen)

\* C20: at every t the actuation Controller.step computes is
\* u1 = mass * (g + a_z), where a_z is the z component of
\* K_d @ (desired velocity - actual velocity) + K_p @ (desired position -
\* actual position), and u2 = [0, 0, 0].
C20_ThrustCommand ==
  /\ (pc = "called" /\ call.op = "step") =>
       call.u = <<ThrustLaw(call.trajectory, call.state), 0, 0, 0>>
  /\ (pc = "dynamics" /\ run.controller = "pd") =>
       commands = rotor_rates_from_u(<<ThrustLaw(reference, state), 0, 0, 0>>)

C20_Witness ==
  /\ pc = "called" /\ call.op = "step"
  /\ call.t = 150
  /\ call.trajectory.position = <<OneMetre, 0, OneMetre>>
  /\ call.state.position = <<0, 0, 0>>
  /\ call.state.velocity = <<0, 0, 4000000>>
  /\ call.u[1] > MulDivR(p.mass, p.g, ForceDen)
  /\ call.u[2] = 0 /\ call.u[3] = 0 /\ call.u[4] = 0

\* The altitudes the references recorded so far ask for, in order.
DesiredAltitudes == Tup([n \in 1..Len(history) |-> history[n].trajectory.position[3]])

\* The positions in a sequence at which the value differs from the one before.
Changes(v) == {n \in 2..Len(v) : v[n] # v[n - 1]}

\* C21: JumpTrajectory.eval(t) asks for position [0, 0, 0] at every t < 1.0
\* and for [0, 0, 1.0] at every t >= 1.0, t = 1.0 included; over the tick
\* times of a run the desired altitude changes once, from 0 to 1.0, when the
\* times reach 1.0, and is never 0 again.
C21_Jump ==
  /\ (pc = "called" /\ call.op = "eval" /\ call.variant = "jump") =>
       /\ call.t < 100 => call.result.position = <<0, 0, 0>>
       /\ call.t >= 100 => call.result.position = <<0, 0, OneMetre>>
  /\ (Started /\ run.trajectory = "jump") =>
       /\ \A n \in 1..Len(history) :
            history[n].trajectory.position =
              IF history[n].t < 100 THEN <<0, 0, 0>> ELSE <<0, 0, OneMetre>>
       /\ \A n \in Changes(DesiredAltitudes) :
            /\ DesiredAltitudes[n - 1] = 0
            /\ DesiredAltitudes[n] = OneMetre
       /\ Cardinality(Changes(DesiredAltitudes)) =
            IF history # <<>> /\ history[Len(history)].t >= 100 THEN 1 ELSE 0

C21_Witness ==
  /\ pc = "finished"
  /\ run.trajectory = "jump"
  /\ Len(history) = 500
  /\ Changes(DesiredAltitudes) = {101}
  /\ history[101].t = 100

\* A reference state: a timestamp, a desired position and a desired velocity,
\* the fields Controller.step reads.
IsReferenceState(v) ==
  /\ DOMAIN v = {"t", "position", "velocity"}
  /\ Len(v.position) = 3
  /\ Len(v.velocity) = 3

\* C22: for every trajectory class of the repository and every t, eval(t)
\* returns a reference state with a timestamp, a desired position of three
\* components and a desired velocity of three components.
C22_EvalReturnsReference ==
  /\ (pc = "called" /\ call.op = "eval") => IsReferenceState(call.result)
  /\ IsReferenceState(reference)

\* C23: PlanarQuadrotorDynamics.step reads the first two rotor rates only:
\* commands that agree on rotors 1 and 2 give the same new state from the
\* same state, whatever the rates of rotors 3 and 4; and equal rates on rotors
\* 1 and 2 give no pitch torque.
C23_TwoRotors ==
  (pc = "called" /\ call.op = "planar_step") =>
    /\ call.new = call.other
    /\ call.rates[1] = call.rates[2] =>
         /\ call.u[2] = 0
         /\ call.new.angular_velocity = call.before.angular_velocity

C23_Witness ==
  /\ pc = "called" /\ call.op = "planar_step"
  /\ call.rates = <<4200, 4200, 6000, 0>>
  /\ call.before.velocity = <<4000000, 4000000, 4000000>>
  /\ call.new # call.before
  /\ call.u[1] > 0

\* The components the planar model is to leave alone are the same in two
\* states: the y position and the x and z angular velocity.
SamePlane(a, b) ==
  /\ a.position[2] = b.position[2]
  /\ a.angular_velocity[1] = b.angular_velocity[1]
  /\ a.angular_velocity[3] = b.angular_velocity[3]

\* C24: under PlanarQuadrotorDynamics the y position and the x and z
\* components of the angular velocity are, after every step, what they were
\* in the initial state, for every initial state and every command.
C24_PlanarConfined ==
  /\ (pc = "called" /\ call.op = "planar_step") => SamePlane(call.new, call.before)
  /\ (Started /\ run.dynamics = "planar" /\ run.params = "default") =>
       /\ SamePlane(state, run.initial_state)
       /\ \A n \in 1..Len(history) : SamePlane(history[n].state, run.initial_state)

\* The dot product of two quaternions, in units of 1e-8.
QuatDot(a, b) == qmul(a[1], b[1]) + qmul(a[2], b[2]) + qmul(a[3], b[3]) + qmul(a[4], b[4])

\* C25: for every quaternion q and every angular velocity omega the rate
\* dRot3 returns is orthogonal to q: every row of G is orthogonal to q exactly,
\* and q . quat_dot is zero to within the rounding of its eight products
\* (one unit of 1e-8 each).
C25_RateOrthogonal ==
  (pc = "called" /\ call.op = "dRot3") =>
    /\ \A r \in 1..3 : QuatDot(call.G[r], call.q) = 0
    /\ Abs(QuatDot(call.q, call.quat_dot)) <= 8

C25_Witness ==
  /\ pc = "called" /\ call.op = "dRot3"
  /\ call.q = <<48000000, 60000000, 64000000, 0>>
  /\ call.omega = <<-100000, 50000, 70000>>
  /\ \A c \in 1..4 : Abs(call.quat_dot[c]) > 100000

EqualRates(rates) == rates[1] = rates[2] /\ rates[2] = rates[3] /\ rates[3] = rates[4]

\* A state turns as little as the initial state of the run: same orientation,
\* no angular velocity.
NotTurned(s) ==
  /\ s.angular_velocity = <<0, 0, 0>>
  /\ s.orientation = run.initial_state.orientation

\* C26: the thrust-only controller commands four equal rotor rates in every
\* call, so in the closed loop with FullQuadrotorDynamics a vehicle that
\* starts without angular velocity has no angular velocity and its initial
\* orientation at every tick, whatever the trajectory.
C26_NoRotation ==
  /\ (pc = "called" /\ call.op = "step") => EqualRates(call.rates)
  /\ (Started /\ run.controller = "pd" /\ run.dynamics = "full" /\ run.params = "default"
        /\ run.initial_state.angular_velocity = <<0, 0, 0>>) =>
       /\ pc = "dynamics" => EqualRates(commands)
       /\ NotTurned(state)
       /\ \A n \in 1..Len(history) :
            EqualRates(history[n].command) /\ NotTurned(history[n].state)

C26_Witness ==
  /\ pc = "finished"
  /\ run.controller = "pd" /\ run.dynamics = "full" /\ run.trajectory = "empty"
  /\ run.initial_state.orientation = <<48000000, 60000000, 64000000, 0>>
  /\ Len(history) = 5
  /\ state.position[1] # 0 /\ state.position[2] # 0
  /\ state.orientation = <<48000000, 60000000, 64000000, 0>>

\* C27: with the default gains the rotor rates Controller.step returns depend
\* on the z components of the position and velocity errors only: two calls
\* that agree on the z position, the z velocity and the desired altitude and
\* differ in the x and y positions and velocities, the orientation, the
\* angular velocity or t return the same rates.
C27_OnlyVertical ==
  (pc = "called" /\ call.op = "step_twice") =>
    /\ call.first.state.position[3] = call.second.state.position[3]
    /\ call.first.state.velocity[3] = call.second.state.velocity[3]
    /\ call.first.trajectory.position[3] = call.second.trajectory.position[3]
    /\ call.first_rates = call.second_rates

C27_Witness ==
  /\ pc = "called" /\ call.op = "step_twice"
  /\ call.second.t = 500
  /\ call.second.state.orientation = <<QOne, 0, 0, 0>>
  /\ call.second.state.position = <<OneMetre, 0, (-1) * (OneMetre \div 200)>>
  /\ call.second.state.velocity = <<-4000000, 1000000, 0>>
  /\ call.second.trajectory.position = <<0, OneMetre, 0>>
  /\ call.first.state.position = <<0, 0, (-1) * (OneMetre \div 200)>>
  /\ call.second_rates[1] > controller_p.rotor_rate_min
  /\ call.second_rates[1] < controller_p.rotor_rate_max

\* The total thrust of four rotors that all turn at the rate w.
ThrustAt(w) == 4 * rotor_thrust_model(<<w>>)[1]

\* The total thrust FullQuadrotorDynamics makes of the rates lies between
\* the thrust at rotor_rate_min and the thrust at rotor_rate_max.
ThrustWithinLimits(rates) ==
  /\ ThrustAt(controller_p.rotor_rate_min) <= FullQuadrotorDynamics_mix(rates)[1]
  /\ FullQuadrotorDynamics_mix(rates)[1] <= ThrustAt(controller_p.rotor_rate_max)

\* A thrust command u1 <= 0 gives four rotors at rotor_rate_min and a
\* positive total thrust.
IdleThrust(u, rates) ==
  u[1] <= 0 =>
    /\ rates = Tup([i \in 1..4 |-> controller_p.rotor_rate_min])
    /\ FullQuadrotorDynamics_mix(rates)[1] = ThrustAt(controller_p.rotor_rate_min)
    /\ FullQuadrotorDynamics_mix(rates)[1] > 0

\* C28: at every tick of the closed loop the total thrust u1 that
\* FullQuadrotorDynamics computes from the rates the Controller commanded
\* lies in [4 k_thrust rotor_rate_min^2, 4 k_thrust rotor_rate_max^2]; a
\* thrust command u1 <= 0 gives all four rotors rotor_rate_min and a
\* strictly positive thrust.
C28_ThrustWithinLimits ==
  /\ controller_p.rotor_rate_min > 0
  /\ (pc = "called" /\ call.op = "step") =>
       /\ ThrustWithinLimits(call.rates)
       /\ call.mixed[1] = FullQuadrotorDynamics_mix(call.rates)[1]
       /\ IdleThrust(call.u, call.rates)
  /\ (pc = "dynamics" /\ run.controller = "pd" /\ run.dynamics = "full") =>
       /\ ThrustWithinLimits(commands)
       /\ IdleThrust(Controller_u(reference, state), commands)
  /\ (Simulating /\ run.controller = "pd" /\ run.dynamics = "full" /\ history # <<>>) =>
       ThrustWithinLimits(history[Len(history)].command)

\* A tick of the closed loop at which the vehicle rises so fast that the
\* commanded thrust is negative, after a tick with the rotors at their
\* upper limit.
C28_Witness ==
  /\ pc = "dynamics" /\ run.controller = "pd" /\ run.dynamics = "full"
  /\ Controller_u(reference, state)[1] < 0
  /\ commands = Tup([i \in 1..4 |-> controller_p.rotor_rate_min])
  /\ \E n \in 1..Len(history) :
       history[n].command = Tup([i \in 1..4 |-> controller_p.rotor_rate_max])

====
